---- MODULE Spec2Model ----
(***************************************************************************)
(* The typed message dispatch pipeline of my-chat-agent: the processors    *)
(* and the MessageRouter of src/src/queue.ts and the queue consumer        *)
(* handler of src/src/server.ts.                                           *)
(*                                                                         *)
(* Every async function is modelled at the granularity of its await        *)
(* points: a call runs synchronously up to its first await, an external    *)
(* completion (an HTTP response, a user-supplied processor finishing) is   *)
(* a step of the environment, and the continuation after an await is a     *)
(* step of its own.                                                        *)
(***************************************************************************)
EXTENDS Naturals, Sequences, FiniteSets

\* ---------------------------------------------------------------- bounds
\* Longest batch handed to processBatch or delivered to the queue handler.
MaxBatch == 2
\* Most registerProcessor calls made on a router after its construction.
MaxRegs == 2
MaxAttempts == 2

\* ----------------------------------------------------------- data model
\* enum QueueMessageType
QueueMessageType ==
  {"webhook", "email", "notification", "task", "analytics", "custom"}

\* The `type` field of a delivered body is whatever the producer serialized
\* (server.ts /queue/send passes the request's own `type` through), so a
\* body may carry a string outside the enum.
Types == QueueMessageType \cup {"unknown"}

\* Sample payloads: `data` is opaque to the router.
Datas == {"d1", "d2"}
Timestamps == {"2025-11-03T00:00:00.000Z"}
Metadatas == {"none"}

\* interface QueueMessage
QueueMessage ==
  [type : Types, timestamp : Timestamps, data : Datas, metadata : Metadatas]

\* The five processor classes of queue.ts, one instance each (the router's
\* constructor makes one of each), and two user-supplied implementations of
\* the MessageProcessor interface.
DefaultProcessors == {"WebhookProcessor", "EmailProcessor",
                      "NotificationProcessor", "TaskProcessor",
                      "AnalyticsProcessor"}
UserProcessors == {"P1", "P2"}
MessageProcessor == DefaultProcessors \cup UserProcessors

\* Map.get's undefined.
NoProcessor == "undefined"

\* Error values.  An error keeps its identity through rethrow, so two
\* errors are the same error iff the records are equal.
NoError == [kind |-> "none", status |-> 0, text |-> ""]
InvalidMessageType(t) ==
  [kind |-> "Invalid message type", status |-> 0, text |-> t]
WebhookFailed(status, body) ==
  [kind |-> "Webhook failed with status", status |-> status, text |-> body]
NetworkError == [kind |-> "fetch failed", status |-> 0, text |-> ""]
UserError(p) == [kind |-> "user processor error", status |-> 0, text |-> p]

\* HTTP responses a webhook target may give.
Statuses == {200, 299, 300, 500}
Bodies == {"boom"}
\* What fetch() has settled with: nothing yet, a Response, or a rejection
\* with the transport's error.
NoResponse == [kind |-> "none", status |-> 0, body |-> "", error |-> NoError]
Response(status, body) ==
  [kind |-> "response", status |-> status, body |-> body, error |-> NoError]
FetchRejected(e) ==
  [kind |-> "rejected", status |-> 0, body |-> "", error |-> e]
FetchOutcomes ==
  {Response(s, b) : s \in Statuses, b \in Bodies}
    \cup {FetchRejected(NetworkError)}

\* Variant: anything below 400 counts as success.
ResponseOk_below400(status) == status >= 200 /\ status <= 399

\* Response.ok
ResponseOk(status) == status >= 200 /\ status <= 299

VARIABLES
  processors,  \* MessageRouter.processors: the tag -> processor Map
  regs,        \* registerProcessor calls made since the router was built
  lastReg,     \* history: per tag, the processor of the latest
               \*   registerProcessor call (constructor's included)
  op,          \* the top-level call in progress
  messages,    \* its argument: the envelopes, in the caller's order
  tasks,       \* one processMessage invocation per envelope
  invoked,     \* history: the process() calls made, <<index, processor>>
  fetched,     \* history: the outbound HTTP requests issued (envelopes)
  result,      \* the promise of the top-level call
  report,      \* processBatch's console.error report, if it made one
  cursor,      \* queue handler: index of the message of the for loop
  signals,     \* queue handler: per message, the ack()/retry() calls made
  input,       \* QueueManager call: its arguments
  calls,       \* QueueManager call: the transport calls it has made
  failure,     \* QueueManager call: the error its promise was rejected with
  reply,       \* /queue/ endpoint: the HTTP response returned, if any yet
  attempt,     \* queue handler: which delivery of its messages this is
  otherRouter, \* the registry of the MessageRouter built before this one
  seen         \* history: per message of the batch, over all its deliveries,
               \*   its deliveries, processMessage calls, process() calls
               \*   and retry() calls

vars == <<processors, regs, lastReg, op, messages, tasks, invoked, fetched,
          result, report, cursor, signals, input, calls, failure, reply,
          attempt, otherRouter, seen>>

\* The variables only QueueManager calls write.
producer == <<input, calls, failure, reply>>

\* ------------------------------------------------------------ processors
\* The tag each processor class compares message.type with.
ExpectedType(p) ==
  CASE p = "WebhookProcessor" -> "webhook"
    [] p = "EmailProcessor" -> "email"
    [] p = "NotificationProcessor" -> "notification"
    [] p = "TaskProcessor" -> "task"
    [] p = "AnalyticsProcessor" -> "analytics"
    [] OTHER -> "any"

\* What one process() call has done when it first yields or returns:
\*   state  "pending" (awaiting something external), "ok" (returned) or
\*          "threw"; error  what it threw; fetch  whether it issued fetch().
Threw(e) == [state |-> "threw", error |-> e, fetch |-> FALSE]
Returned == [state |-> "ok", error |-> NoError, fetch |-> FALSE]
Pending(f) == [state |-> "pending", error |-> NoError, fetch |-> f]

\* Variant: the tag check left out.
WebhookProcessor_process_unchecked(message) == Pending(TRUE)

WebhookProcessor_process(message) ==
  IF message.type # "webhook"
  THEN Threw(InvalidMessageType(message.type))
  ELSE Pending(TRUE)

\* Variant: the placeholder replaced by a call to a mail provider.
EmailProcessor_process_sending(message) ==
  IF message.type # "email"
  THEN Threw(InvalidMessageType(message.type))
  ELSE Pending(TRUE)

EmailProcessor_process(message) ==
  IF message.type # "email"
  THEN Threw(InvalidMessageType(message.type))
  ELSE Returned

NotificationProcessor_process(message) ==
  IF message.type # "notification"
  THEN Threw(InvalidMessageType(message.type))
  ELSE Returned

TaskProcessor_process(message) ==
  IF message.type # "task"
  THEN Threw(InvalidMessageType(message.type))
  ELSE Returned

AnalyticsProcessor_process(message) ==
  IF message.type # "analytics"
  THEN Threw(InvalidMessageType(message.type))
  ELSE Returned

\* A user-supplied processor: its outcome is the environment's choice.
UserProcessor_process(message) == Pending(FALSE)

\* processor.process(message): dynamic dispatch on the processor's class.
process(p, message) ==
  CASE p = "WebhookProcessor" -> WebhookProcessor_process(message)
    [] p = "EmailProcessor" -> EmailProcessor_process(message)
    [] p = "NotificationProcessor" -> NotificationProcessor_process(message)
    [] p = "TaskProcessor" -> TaskProcessor_process(message)
    [] p = "AnalyticsProcessor" -> AnalyticsProcessor_process(message)
    [] OTHER -> UserProcessor_process(message)

\* The rest of WebhookProcessor.process once fetch() has settled with a
\* response: resolve on response.ok, else throw with status and body.
WebhookProcessor_response(status, body) ==
  IF ~ResponseOk(status)
  THEN Threw(WebhookFailed(status, body))
  ELSE Returned

\* The catch block of WebhookProcessor.process: log and rethrow.
WebhookProcessor_catch(error) == Threw(error)

\* WebhookProcessor.process from the point fetch() settles.  The error
\* thrown for a non-2xx response passes through the catch block too.
WebhookProcessor_resume(outcome) ==
  IF outcome.kind = "rejected"
  THEN WebhookProcessor_catch(outcome.error)
  ELSE LET r == WebhookProcessor_response(outcome.status, outcome.body) IN
       IF r.state = "threw" THEN WebhookProcessor_catch(r.error) ELSE r

\* ---------------------------------------------------------------- router
\* Map.set
MapSet(map, key, value) ==
  [k \in DOMAIN map \cup {key} |-> IF k = key THEN value ELSE map[k]]
\* Map.get
MapGet(map, key) == IF key \in DOMAIN map THEN map[key] ELSE NoProcessor

EmptyMap == [k \in {} |-> NoProcessor]

\* Variant: an entry, once made, is kept (first write wins).
registerProcessor_keepFirst(map, type, processor) ==
  IF type \in DOMAIN map THEN map ELSE MapSet(map, type, processor)

\* Variant: a registration starts the registry afresh.
registerProcessor_replaceAll(map, type, processor) ==
  MapSet(EmptyMap, type, processor)

\* MessageRouter.registerProcessor
registerProcessor(map, type, processor) == MapSet(map, type, processor)

\* Variant: one registry shared by all routers (a static Map).
registerProcessorOn_static(this, that, type, processor) ==
  [this |-> registerProcessor(this, type, processor),
   that |-> registerProcessor(that, type, processor)]

\* this.registerProcessor(type, processor) with another router, that,
\* alive: the registries of the two afterwards.  The Map is a field of
\* the instance, made by its constructor.
registerProcessorOn(this, that, type, processor) ==
  [this |-> registerProcessor(this, type, processor), that |-> that]

\* Variant: a constructor that also installs a processor for custom.
MessageRouter_withCustom ==
  [t \in QueueMessageType |->
     CASE t = "webhook" -> "WebhookProcessor"
       [] t = "email" -> "EmailProcessor"
       [] t = "notification" -> "NotificationProcessor"
       [] t = "task" -> "TaskProcessor"
       [] t = "analytics" -> "AnalyticsProcessor"
       [] OTHER -> "P1"]

\* MessageRouter's constructor
MessageRouter ==
  registerProcessor(
    registerProcessor(
      registerProcessor(
        registerProcessor(
          registerProcessor(EmptyMap, "webhook", "WebhookProcessor"),
          "email", "EmailProcessor"),
        "notification", "NotificationProcessor"),
      "task", "TaskProcessor"),
    "analytics", "AnalyticsProcessor")

\* One processMessage invocation:
\*   proc   the processor looked up at call time
\*   pstate/perror  the promise of processor.process(message)
\*   fetch  whether that call issued an HTTP request
\*   response  what that request has settled with
\*   state/error  the promise processMessage returned
NewTask ==
  [proc |-> NoProcessor, pstate |-> "none", perror |-> NoError,
   fetch |-> FALSE, response |-> NoResponse, state |-> "new",
   error |-> NoError]

\* Variant: an unregistered tag is an error.
processMessage_throwUnhandled(map, message) ==
  LET processor == MapGet(map, message.type) IN
  IF processor = NoProcessor
  THEN [NewTask EXCEPT !.state = "rejected",
                       !.error = InvalidMessageType(message.type)]
  ELSE LET r == process(processor, message) IN
       [proc |-> processor, pstate |-> r.state, perror |-> r.error,
        fetch |-> r.fetch, response |-> NoResponse, state |-> "awaiting",
        error |-> NoError]

\* Variant: the processor is picked by looking into the payload.
processMessage_sniffData(map, message) ==
  LET processor == IF message.data = "d2" THEN MapGet(map, "webhook")
                   ELSE MapGet(map, message.type) IN
  IF processor = NoProcessor
  THEN [NewTask EXCEPT !.state = "resolved"]
  ELSE LET r == process(processor, message) IN
       [proc |-> processor, pstate |-> r.state, perror |-> r.error,
        fetch |-> r.fetch, response |-> NoResponse, state |-> "awaiting",
        error |-> NoError]

\* processMessage up to its await: the lookup, the early return when no
\* processor is registered, else the call of processor.process.
processMessage(map, message) ==
  LET processor == MapGet(map, message.type) IN
  IF processor = NoProcessor
  THEN [NewTask EXCEPT !.state = "resolved"]
  ELSE LET r == process(processor, message) IN
       [proc |-> processor, pstate |-> r.state, perror |-> r.error,
        fetch |-> r.fetch, response |-> NoResponse, state |-> "awaiting",
        error |-> NoError]

\* Variant: the catch block throws a new error in place of the one caught.
processMessageResume_wrap(task) ==
  IF task.pstate = "threw"
  THEN [task EXCEPT !.state = "rejected",
                    !.error = [kind |-> "processing failed", status |-> 0,
                               text |-> task.perror.kind]]
  ELSE [task EXCEPT !.state = "resolved"]

\* Variant: after its await the call reads the registry again and, finding
\* another processor there, hands the envelope over to that one.
processMessageResume_lookupAgain(task) ==
  LET i == CHOOSE k \in 1..Len(tasks) : tasks[k] = task
      current == MapGet(processors, messages[i].type) IN
  IF task.pstate = "threw"
  THEN [task EXCEPT !.state = "rejected", !.error = task.perror]
  ELSE [task EXCEPT !.state = "resolved", !.proc = current]

\* processMessage after its await: return, or catch and rethrow the error.
processMessageResume(task) ==
  IF task.pstate = "threw"
  THEN [task EXCEPT !.state = "rejected", !.error = task.perror]
  ELSE [task EXCEPT !.state = "resolved"]

Settled(task) == task.state \in {"resolved", "rejected"}

\* The process() calls and the HTTP requests that starting `ts` (the tasks
\* of envelopes `ms`, in order) has made.
RECURSIVE InvokedBy(_, _)
InvokedBy(ts, i) ==
  IF i > Len(ts) THEN <<>>
  ELSE (IF ts[i].proc = NoProcessor THEN <<>> ELSE << <<i, ts[i].proc>> >>)
       \o InvokedBy(ts, i + 1)

RECURSIVE FetchedBy(_, _, _)
FetchedBy(ts, ms, i) ==
  IF i > Len(ts) THEN <<>>
  ELSE (IF ts[i].fetch THEN <<ms[i]>> ELSE <<>>) \o FetchedBy(ts, ms, i + 1)

\* console.error's "<failures> out of <total> messages failed to process";
\* NoReport when processBatch logged nothing.
NoReport == [failures |-> 0, total |-> 0, made |-> FALSE]

\* The argument lists of processBatch: up to MaxBatch envelopes of any
\* tags, all with the first sample payload.
BatchMessages == {m \in QueueMessage : m.data = "d1"}
Batches == UNION {[1..n -> BatchMessages] : n \in 0..MaxBatch}

\* Variant: a sequential loop that gives up at the first envelope whose
\* processor throws at once, leaving the rest unattempted.
RECURSIVE processBatch_stopAtThrow(_, _)
processBatch_stopAtThrow(map, batch) ==
  IF batch = <<>> THEN <<>>
  ELSE LET t == processMessage(map, Head(batch)) IN
       IF t.pstate = "threw"
       THEN <<t>> \o [i \in 1..(Len(batch) - 1) |-> NewTask]
       ELSE <<t>> \o processBatch_stopAtThrow(map, Tail(batch))

\* Variant: a loop that awaits each call before it makes the next one.
processBatch_oneAtATime(map, batch) ==
  [i \in 1..Len(batch) |->
     IF i = 1 THEN processMessage(map, batch[i]) ELSE NewTask]

\* processBatch up to its await: messages.map((msg) => processMessage(msg))
processBatch(map, batch) ==
  [i \in 1..Len(batch) |-> processMessage(map, batch[i])]

\* Variant: Promise.all, which rejects as soon as one promise rejects.
PromiseAll(ts) ==
  [state |-> IF \E i \in 1..Len(ts) : ts[i].state = "rejected"
             THEN "rejected" ELSE "fulfilled",
   value |-> [i \in 1..Len(ts) |-> [status |-> "fulfilled"]]]

\* Promise.allSettled over settled promises: always fulfilled, with one
\* {status} entry per promise.
PromiseAllSettled(ts) ==
  [state |-> "fulfilled",
   value |-> [i \in 1..Len(ts) |->
                [status |-> IF ts[i].state = "rejected"
                            THEN "rejected" ELSE "fulfilled"]]]

\* Variant: Promise.race, settled as soon as one of the promises is.
PromiseRace_settled(ts) ==
  ts = <<>> \/ \E i \in 1..Len(ts) : Settled(ts[i])

\* When the promise of Promise.allSettled settles: once every promise has.
PromiseAllSettled_settled(ts) == \A i \in 1..Len(ts) : Settled(ts[i])

IsRejected(r) == r.status = "rejected"

\* Variant: the report is made only for more than one failure.
processBatchResume_offByOne(ts) ==
  LET results == PromiseAllSettled(ts)
      failures == SelectSeq(results.value, IsRejected) IN
  [result |-> IF results.state = "rejected" THEN "rejected" ELSE "resolved",
   report |-> IF Len(failures) > 1
              THEN [failures |-> Len(failures), total |-> Len(ts),
                    made |-> TRUE]
              ELSE NoReport]

\* processBatch after its await: count the rejected results and log them
\* if there are any; an await on a rejected promise would throw.
processBatchResume(ts) ==
  LET results == PromiseAllSettled(ts)
      failures == SelectSeq(results.value, IsRejected) IN
  [result |-> IF results.state = "rejected" THEN "rejected" ELSE "resolved",
   report |-> IF Len(failures) > 0
              THEN [failures |-> Len(failures), total |-> Len(ts),
                    made |-> TRUE]
              ELSE NoReport]

\* ------------------------------------------------------- queue consumer
\* The bodies of a delivered MessageBatch.
Deliveries == UNION {[1..n -> QueueMessage] : n \in 0..MaxBatch}

\* Variant: the message is acknowledged before it is processed.
queueSignals_ackFirst(task) ==
  IF task.state = "rejected" THEN <<"ack", "retry">> ELSE <<"ack">>

\* Variant: an invalid-type error is dropped, any other error retried.
queueSignals_dropInvalid(task) ==
  IF task.state = "rejected" /\ task.error.kind # "Invalid message type"
  THEN <<"retry">> ELSE <<"ack">>

\* Variant: the acknowledgement moved to a finally block.
queueSignals_ackInFinally(task) ==
  IF task.state = "rejected" THEN <<"retry", "ack">> ELSE <<"ack">>

\* Variant: a message that fails on a second delivery is given up.
queueSignals_giveUp(task) ==
  IF task.state = "rejected" /\ attempt < 2 THEN <<"retry">> ELSE <<"ack">>

\* One iteration of the handler's for loop after its await: message.ack()
\* on the try path, message.retry() in the catch block.
queueSignals(task) ==
  IF task.state = "rejected" THEN <<"retry">> ELSE <<"ack">>

\* Variant: one task per message, all of them started at delivery.
queueIterate_spawnAll(map, batch, ts, i) ==
  IF i = 1
  THEN [k \in 1..Len(batch) |-> processMessage(map, batch[k])]
  ELSE ts

\* Variant: only the first message of a batch is processed, the others
\* are passed over as done.
queueIterate_firstOnly(map, batch, ts, i) ==
  IF i > Len(batch) THEN ts
  ELSE IF i = 1 THEN [ts EXCEPT ![i] = processMessage(map, batch[i])]
  ELSE [ts EXCEPT ![i] = [NewTask EXCEPT !.state = "resolved"]]

\* Variant: a loop without its try/catch, which a rejected processMessage
\* call leaves at once.
queueIterate_leaveAtThrow(map, batch, ts, i) ==
  IF i <= Len(batch) /\ (i = 1 \/ ts[i - 1].state # "rejected")
  THEN [ts EXCEPT ![i] = processMessage(map, batch[i])]
  ELSE ts

\* Variant: once a message of the batch has failed, the messages after it
\* are failed with it, unprocessed.
queueIterate_failRest(map, batch, ts, i) ==
  IF i > Len(batch) THEN ts
  ELSE IF i > 1 /\ ts[i - 1].state = "rejected"
  THEN [ts EXCEPT ![i] = [NewTask EXCEPT !.state = "rejected"]]
  ELSE [ts EXCEPT ![i] = processMessage(map, batch[i])]

\* The handler's loop reaching message i: it calls processMessage for it
\* and awaits; past the last message the handler returns.
queueIterate(map, batch, ts, i) ==
  IF i <= Len(batch)
  THEN [ts EXCEPT ![i] = processMessage(map, batch[i])]
  ELSE ts

\* The bodies the transport holds after the calls cs, in order.
Accepted(cs) ==
  [i \in 1..Len(cs[1].payload) |-> cs[1].payload[i].body]

\* The messages of a handled batch on which retry() was called, in order.
Retried(batch, sigs) ==
  LET RECURSIVE from(_)
      from(i) ==
        IF i > Len(batch) THEN <<>>
        ELSE IF \E k \in 1..Len(sigs[i]) : sigs[i][k] = "retry"
             THEN <<batch[i]>> \o from(i + 1)
             ELSE from(i + 1) IN
  from(1)

\* The history of a message not delivered yet.
NotSeen == [deliveries |-> 0, calls |-> 0, invocations |-> 0, retries |-> 0]

\* The histories after one more delivery of each message.
Delivered(prior) ==
  [i \in 1..Len(prior) |-> [prior[i] EXCEPT !.deliveries = @ + 1]]

\* The histories after the loop has taken the tasks from before to after:
\* one more processMessage call for each message it has reached, and one
\* more process() call if that call found a processor.
Consumed(prior, before, after) ==
  [i \in 1..Len(prior) |->
     IF before[i].state = "new" /\ after[i].state # "new"
     THEN [prior[i] EXCEPT
             !.calls = @ + 1,
             !.invocations = IF after[i].proc # NoProcessor THEN @ + 1 ELSE @]
     ELSE prior[i]]

\* The histories after message i has been given the signals sigs.
Signalled(prior, i, sigs) ==
  [prior EXCEPT
     ![i].retries = @ + Len(SelectSeq(sigs, LAMBDA s : s = "retry"))]

\* -------------------------------------------------------------- producer
\* No QueueManager call in progress.
NoInput == [fn |-> "none"]

\* QueueSendOptions samples; "undefined" when the caller passes none.
SendOptions == {"undefined", "delaySeconds: 60"}

\* The error env.MY_QUEUE.send / sendBatch rejects with.
TransportError == [kind |-> "queue send failed", status |-> 0, text |-> ""]

\* One call on the transport (the Queue binding): its method, its payload
\* as {body, options} entries in order, and the state of its promise.
TransportCall(method, payload) ==
  [method |-> method, payload |-> payload, state |-> "pending"]

\* QueueManager.send up to its await: this.queue.send(message, options)
send(message, options) ==
  TransportCall("send", << [body |-> message, options |-> options] >>)

\* Variant: the batch payload built back to front.
sendBatch_reversed(batch, options) ==
  TransportCall("sendBatch",
    [i \in 1..Len(batch) |->
       [body |-> batch[Len(batch) + 1 - i], options |-> options]])

\* Variant: each body is stamped again when the batch is sent.
sendBatch_restamped(batch, options) ==
  TransportCall("sendBatch",
    [i \in 1..Len(batch) |->
       [body |-> [batch[i] EXCEPT !.timestamp = "2025-11-03T00:00:01.000Z"],
        options |-> options]])

\* QueueManager.sendBatch up to its await:
\* this.queue.sendBatch(messages.map((msg) => ({body: msg, ...options})))
sendBatch(batch, options) ==
  TransportCall("sendBatch",
    [i \in 1..Len(batch) |-> [body |-> batch[i], options |-> options]])

\* Variant: a failed transport call is made once more, and its failure
\* swallowed.
sendResume_retry(cs) ==
  IF cs[Len(cs)].state = "failed"
  THEN [calls |-> cs \o <<cs[Len(cs)]>>, result |-> "resolved",
        failure |-> NoError]
  ELSE [calls |-> cs, result |-> "resolved", failure |-> NoError]

\* send / sendBatch (and a convenience constructor awaiting send) after the
\* await on the transport call: return, or let its rejection propagate.
sendResume(cs) ==
  IF cs[Len(cs)].state = "failed"
  THEN [calls |-> cs, result |-> "rejected", failure |-> TransportError]
  ELSE [calls |-> cs, result |-> "resolved", failure |-> NoError]

\* new Date().toISOString() at the time of a constructor call.
Clock == {"2025-11-03T00:00:00.000Z", "2025-11-03T00:00:01.000Z"}

\* Sample arguments of the convenience constructors.  "undefined" stands
\* for an optional argument the caller left out.
OptionalMetadata == {"undefined", "source: api"}
WebhookArgs ==
  [url : {"https://hooks.example/a"}, method : {"POST", "GET"},
   headers : {"{}"}, body : {"undefined", "payload"},
   metadata : OptionalMetadata]
EmailArgs ==
  [to : {"to@example"}, from : {"from@example"}, subject : {"hello"},
   body : {"text"}, html : {"undefined", "<p>text</p>"},
   metadata : OptionalMetadata]
NotificationArgs ==
  [userId : {"u1"}, title : {"title"}, messageText : {"text"},
   priority : {"undefined", "low", "medium", "high"},
   metadata : OptionalMetadata]
TaskArgs ==
  [taskId : {"t1", "t2"}, action : {"run"}, payload : {"{}"},
   metadata : OptionalMetadata]
AnalyticsArgs ==
  [event : {"signup"}, properties : {"plan: pro"},
   userId : {"undefined", "u1"}, metadata : OptionalMetadata]
CustomArgs == [data : Datas, metadata : OptionalMetadata]

\* The envelopes the six constructors build.
sendWebhook(a, now) ==
  [type |-> "webhook", timestamp |-> now,
   data |-> [url |-> a.url, method |-> a.method, headers |-> a.headers,
             body |-> a.body],
   metadata |-> a.metadata]

\* Variant: sender and recipient the wrong way round.
sendEmail_swapped(a, now) ==
  [type |-> "email", timestamp |-> now,
   data |-> [to |-> a.from, from |-> a.to, subject |-> a.subject,
             body |-> a.body, html |-> a.html],
   metadata |-> a.metadata]

sendEmail(a, now) ==
  [type |-> "email", timestamp |-> now,
   data |-> [to |-> a.to, from |-> a.from, subject |-> a.subject,
             body |-> a.body, html |-> a.html],
   metadata |-> a.metadata]

\* priority has the default value "medium".
sendNotification(a, now) ==
  LET priority == IF a.priority = "undefined" THEN "medium" ELSE a.priority IN
  [type |-> "notification", timestamp |-> now,
   data |-> [userId |-> a.userId, title |-> a.title,
             message |-> a.messageText, priority |-> priority],
   metadata |-> a.metadata]

sendTask(a, now) ==
  [type |-> "task", timestamp |-> now,
   data |-> [taskId |-> a.taskId, action |-> a.action,
             payload |-> a.payload],
   metadata |-> a.metadata]

sendAnalytics(a, now) ==
  [type |-> "analytics", timestamp |-> now,
   data |-> [event |-> a.event, properties |-> a.properties,
             userId |-> a.userId],
   metadata |-> a.metadata]

sendCustom(a, now) ==
  [type |-> "custom", timestamp |-> now, data |-> a.data,
   metadata |-> a.metadata]

\* The constructor calls made: which constructor, with which arguments.
ConstructorCalls ==
  ({"sendWebhook"} \X WebhookArgs) \cup ({"sendEmail"} \X EmailArgs)
    \cup ({"sendNotification"} \X NotificationArgs)
    \cup ({"sendTask"} \X TaskArgs)
    \cup ({"sendAnalytics"} \X AnalyticsArgs)
    \cup ({"sendCustom"} \X CustomArgs)

\* The envelope constructor fn builds from arguments a at time now.
Constructed(fn, a, now) ==
  CASE fn = "sendWebhook" -> sendWebhook(a, now)
    [] fn = "sendEmail" -> sendEmail(a, now)
    [] fn = "sendNotification" -> sendNotification(a, now)
    [] fn = "sendTask" -> sendTask(a, now)
    [] fn = "sendAnalytics" -> sendAnalytics(a, now)
    [] fn = "sendCustom" -> sendCustom(a, now)

\* ------------------------------------------------------ /queue/ endpoints
\* No response yet.
NoReply == [status |-> 0, success |-> FALSE]

\* Response.json({success, ...}, {status})
Reply(status, success) == [status |-> status, success |-> success]

\* !v for the values a JSON field takes here: absent, or a string.
Falsy(v) == v \in {"undefined", ""}

\* v || d
Or(v, d) == IF Falsy(v) THEN d ELSE v

\* Variant: the catch block reports the failure in a success response.
queueEndpointResume_alwaysOk(outcome) == Reply(200, TRUE)

\* An endpoint after its await on the QueueManager call: the success
\* response, or the catch block's 500.
queueEndpointResume(outcome) ==
  IF outcome = "rejected" THEN Reply(500, FALSE) ELSE Reply(200, TRUE)

\* Sample JSON bodies of the requests to each action; "undefined" is a
\* field the body lacks, and a messages field is an array or not.
Required == {"undefined", "", "given"}
Optional == {"undefined", "given"}
JsonArrays ==
  {[array |-> FALSE, items |-> <<>>]}
    \cup {[array |-> TRUE, items |-> b] : b \in Batches}
RequestBodies(action) ==
  CASE action = "send" ->
         [type : {"undefined", "task", "unknown"}, data : Optional,
          metadata : Optional]
    [] action = "webhook" ->
         [url : Required, method : Required, headers : Optional,
          body : Optional, metadata : {"undefined"}]
    [] action = "email" ->
         [to : Required, from : Required, subject : Optional,
          body : Optional, html : {"undefined"}, metadata : {"undefined"}]
    [] action = "notification" ->
         [userId : Required, title : Optional, message : Optional,
          priority : {"undefined", "high"}, metadata : {"undefined"}]
    [] action = "task" ->
         [taskId : Required, action : Optional, payload : Optional,
          metadata : {"undefined"}]
    [] action = "analytics" ->
         [event : Required, properties : Optional, userId : Optional,
          metadata : {"undefined"}]
    [] action = "batch" -> [messages : JsonArrays]
    [] OTHER -> {[unused |-> "given"]}

\* The paths after /queue/ and the requests made to them; a body that is
\* not JSON makes request.json() throw.
QueueActions == {"send", "webhook", "email", "notification", "task",
                 "analytics", "batch", "status"}
Requests ==
  UNION {[method : {"POST", "GET"}, action : {a}, json : BOOLEAN,
          body : RequestBodies(a)] : a \in QueueActions}

\* What an endpoint has done when it first yields or returns: a response,
\* or a QueueManager call under way.
Answered(status) ==
  [reply |-> Reply(status, FALSE), calls |-> <<>>, envelopes |-> <<>>]
Awaiting(envelopes, call) ==
  [reply |-> NoReply, calls |-> <<call>>, envelopes |-> envelopes]
AwaitingSend(message) == Awaiting(<<message>>, send(message, "undefined"))

\* The /queue/ routes of fetch, up to the await on the QueueManager call.
queueEndpoint(request, now) ==
  LET b == request.body IN
  IF request.method # "POST" THEN Answered(405)
  ELSE IF ~request.json THEN Answered(500)
  ELSE CASE request.action = "send" ->
              AwaitingSend([type |-> Or(b.type, "custom"), timestamp |-> now,
                            data |-> b.data, metadata |-> b.metadata])
         [] request.action = "webhook" ->
              IF Falsy(b.url) \/ Falsy(b.method) THEN Answered(400)
              ELSE AwaitingSend(
                     sendWebhook([b EXCEPT !.headers = Or(@, "{}")], now))
         [] request.action = "email" ->
              IF Falsy(b.to) \/ Falsy(b.from) \/ Falsy(b.subject)
                   \/ Falsy(b.body)
              THEN Answered(400)
              ELSE AwaitingSend(sendEmail(b, now))
         [] request.action = "notification" ->
              IF Falsy(b.userId) \/ Falsy(b.title) \/ Falsy(b.message)
              THEN Answered(400)
              ELSE AwaitingSend(
                     sendNotification(
                       [userId |-> b.userId, title |-> b.title,
                        messageText |-> b.message,
                        priority |-> Or(b.priority, "medium"),
                        metadata |-> b.metadata], now))
         [] request.action = "task" ->
              IF Falsy(b.taskId) \/ Falsy(b.action) \/ Falsy(b.payload)
              THEN Answered(400)
              ELSE AwaitingSend(sendTask(b, now))
         [] request.action = "analytics" ->
              IF Falsy(b.event) \/ Falsy(b.properties) THEN Answered(400)
              ELSE AwaitingSend(sendAnalytics(b, now))
         [] request.action = "batch" ->
              IF ~b.messages.array \/ Len(b.messages.items) = 0
              THEN Answered(400)
              ELSE Awaiting(b.messages.items,
                            sendBatch(b.messages.items, "undefined"))
         [] OTHER -> Answered(404)

\* ------------------------------------------------------------------ init

Init ==
  /\ processors = MessageRouter
  /\ regs = 0
  /\ lastReg = MessageRouter
  /\ op = "idle"
  /\ messages = <<>>
  /\ tasks = <<>>
  /\ invoked = <<>>
  /\ fetched = <<>>
  /\ result = "none"
  /\ report = NoReport
  /\ cursor = 0
  /\ signals = <<>>
  /\ input = NoInput
  /\ calls = <<>>
  /\ failure = NoError
  /\ attempt = 0
  /\ seen = <<>>
  /\ otherRouter = MessageRouter
  /\ reply = NoReply

\* No top-level call is in progress.
Quiescent == op = "idle"

\* --------------------------------------------------------------- actions
\* router.registerProcessor(type, processor), from any task, at any time.
RegisterProcessorIn(types, procs) ==
  /\ regs < MaxRegs
  /\ \E type \in types, processor \in procs :
       /\ processors' =
            registerProcessorOn(processors, otherRouter, type, processor).this
       /\ otherRouter' =
            registerProcessorOn(processors, otherRouter, type, processor).that
       /\ lastReg' = MapSet(lastReg, type, processor)
  /\ regs' = regs + 1
  /\ UNCHANGED <<op, messages, tasks, invoked, fetched, result, report,
                 cursor, signals, producer, attempt, seen>>

RegisterProcessor == RegisterProcessorIn(QueueMessageType, MessageProcessor)

\* await router.processMessage(message): the call, up to its first await.
ProcessMessage ==
  /\ Quiescent
  /\ \E message \in QueueMessage :
       LET t == processMessage(processors, message) IN
       /\ op' = "processMessage"
       /\ messages' = <<message>>
       /\ tasks' = <<t>>
       /\ invoked' = InvokedBy(<<t>>, 1)
       /\ fetched' = FetchedBy(<<t>>, <<message>>, 1)
       /\ result' = IF Settled(t) THEN t.state ELSE "pending"
  /\ report' = NoReport
  /\ cursor' = 0
  /\ signals' = <<>>
  /\ UNCHANGED <<processors, regs, lastReg, producer, attempt, seen,
                 otherRouter>>

\* The HTTP request of a webhook task settles: a response, or a transport
\* failure, which the catch block rethrows as it is.
FetchSettlesFor(i) ==
  /\ tasks[i].pstate = "pending"
  /\ tasks[i].proc = "WebhookProcessor"
  /\ \E outcome \in FetchOutcomes :
       LET r == WebhookProcessor_resume(outcome) IN
       tasks' = [tasks EXCEPT ![i].response = outcome,
                              ![i].pstate = r.state, ![i].perror = r.error]
  /\ UNCHANGED <<processors, regs, lastReg, op, messages, invoked, fetched,
                 result, report, cursor, signals, producer, attempt, seen,
                 otherRouter>>

FetchSettles == \E i \in 1..Len(tasks) : FetchSettlesFor(i)

\* A user-supplied processor returns or throws.
UserProcessorSettlesFor(i) ==
  /\ tasks[i].pstate = "pending"
  /\ tasks[i].proc \in UserProcessors
  /\ \E r \in {Returned, Threw(UserError(tasks[i].proc))} :
       tasks' = [tasks EXCEPT ![i].pstate = r.state, ![i].perror = r.error]
  /\ UNCHANGED <<processors, regs, lastReg, op, messages, invoked, fetched,
                 result, report, cursor, signals, producer, attempt, seen,
                 otherRouter>>

UserProcessorSettles == \E i \in 1..Len(tasks) : UserProcessorSettlesFor(i)

\* The continuation of a processMessage call whose processor has settled.
\* A call made directly by the caller settles the caller's promise.
ProcessMessageResumesFor(i) ==
  /\ tasks[i].state = "awaiting"
  /\ tasks[i].pstate \in {"ok", "threw"}
  /\ tasks' = [tasks EXCEPT ![i] = processMessageResume(tasks[i])]
  /\ result' = IF op = "processMessage" THEN tasks'[i].state ELSE result
  /\ UNCHANGED <<processors, regs, lastReg, op, messages, invoked, fetched,
                 report, cursor, signals, producer, attempt, seen,
                 otherRouter>>

ProcessMessageResumes == \E i \in 1..Len(tasks) : ProcessMessageResumesFor(i)

\* await router.processBatch(batch): the call, up to its await.  The map
\* callback has started every processMessage call, in order.
ProcessBatch ==
  /\ Quiescent
  /\ \E batch \in Batches :
       LET ts == processBatch(processors, batch) IN
       /\ op' = "processBatch"
       /\ messages' = batch
       /\ tasks' = ts
       /\ invoked' = InvokedBy(ts, 1)
       /\ fetched' = FetchedBy(ts, batch, 1)
  /\ result' = "pending"
  /\ report' = NoReport
  /\ cursor' = 0
  /\ signals' = <<>>
  /\ UNCHANGED <<processors, regs, lastReg, producer, attempt, seen,
                 otherRouter>>

\* The continuation of processBatch once Promise.allSettled has settled.
ProcessBatchResumes ==
  /\ op = "processBatch"
  /\ result = "pending"
  /\ PromiseAllSettled_settled(tasks)
  /\ LET r == processBatchResume(tasks) IN
       /\ result' = r.result
       /\ report' = r.report
  /\ UNCHANGED <<processors, regs, lastReg, op, messages, tasks, invoked,
                 fetched, cursor, signals, producer, attempt, seen,
                 otherRouter>>

\* The caller's continuation once its call has settled: it is free to make
\* the next call.  The router keeps its registry.
CallerContinues ==
  /\ op # "idle"
  /\ result \in {"resolved", "rejected"}
  /\ op' = "idle"
  /\ messages' = <<>>
  /\ tasks' = <<>>
  /\ invoked' = <<>>
  /\ fetched' = <<>>
  /\ result' = "none"
  /\ report' = NoReport
  /\ cursor' = 0
  /\ signals' = <<>>
  /\ input' = NoInput
  /\ calls' = <<>>
  /\ failure' = NoError
  /\ reply' = NoReply
  /\ attempt' = 0
  /\ seen' = <<>>
  /\ UNCHANGED <<processors, regs, lastReg, otherRouter>>

\* The runtime delivers a batch to the queue() handler: it builds a fresh
\* MessageRouter and runs its loop up to the first await.
Queue ==
  /\ Quiescent
  /\ \E batch \in Deliveries :
       LET new == [i \in 1..Len(batch) |-> NewTask]
           ts == queueIterate(MessageRouter, batch, new, 1) IN
       /\ messages' = batch
       /\ tasks' = ts
       /\ invoked' = InvokedBy(ts, 1)
       /\ fetched' = FetchedBy(ts, batch, 1)
       /\ signals' = [i \in 1..Len(batch) |-> <<>>]
       /\ result' = IF Len(batch) = 0 THEN "resolved" ELSE "pending"
       /\ seen' = Consumed(Delivered([i \in 1..Len(batch) |-> NotSeen]),
                           new, ts)
  /\ op' = "queue"
  /\ processors' = MessageRouter
  /\ regs' = 0
  /\ lastReg' = MessageRouter
  /\ report' = NoReport
  /\ cursor' = 1
  /\ attempt' = 1
  /\ otherRouter' = processors
  /\ UNCHANGED producer

\* The handler's continuation once the processMessage call it awaits has
\* settled: ack or retry the message, then go on to the next one.
QueueResumes ==
  /\ op = "queue"
  /\ result = "pending"
  /\ cursor <= Len(messages)
  /\ Settled(tasks[cursor])
  /\ signals' = [signals EXCEPT
                   ![cursor] = signals[cursor] \o queueSignals(tasks[cursor])]
  /\ cursor' = cursor + 1
  /\ tasks' = queueIterate(processors, messages, tasks, cursor + 1)
  /\ invoked' = InvokedBy(tasks', 1)
  /\ fetched' = FetchedBy(tasks', messages, 1)
  /\ result' = IF cursor + 1 > Len(messages) THEN "resolved" ELSE "pending"
  /\ seen' = Consumed(Signalled(seen, cursor, queueSignals(tasks[cursor])),
                      tasks, tasks')
  /\ UNCHANGED <<processors, regs, lastReg, op, messages, report, producer,
                 attempt, otherRouter>>

\* The consumer loop of server.ts run by an application over its own
\* router, the one registerProcessor was called on: the same loop as the
\* queue() handler's, up to its first await.  (The handler itself always
\* builds a default router.)
ConsumerLoop ==
  /\ Quiescent
  /\ \E batch \in Batches :
       LET new == [i \in 1..Len(batch) |-> NewTask]
           ts == queueIterate(processors, batch, new, 1) IN
       /\ messages' = batch
       /\ tasks' = ts
       /\ invoked' = InvokedBy(ts, 1)
       /\ fetched' = FetchedBy(ts, batch, 1)
       /\ signals' = [i \in 1..Len(batch) |-> <<>>]
       /\ result' = IF Len(batch) = 0 THEN "resolved" ELSE "pending"
       /\ seen' = Consumed(Delivered([i \in 1..Len(batch) |-> NotSeen]),
                           new, ts)
  /\ op' = "queue"
  /\ report' = NoReport
  /\ cursor' = 1
  /\ attempt' = 1
  /\ UNCHANGED <<processors, regs, lastReg, producer, otherRouter>>

\* A run of the queue() handler on batch, up to its first await, as the
\* n-th delivery of these messages, whose history so far is prior.
Handler(batch, n, prior) ==
  LET new == [i \in 1..Len(batch) |-> NewTask]
      ts == queueIterate(MessageRouter, batch, new, 1) IN
  /\ op' = "queue"
  /\ messages' = batch
  /\ tasks' = ts
  /\ invoked' = InvokedBy(ts, 1)
  /\ fetched' = FetchedBy(ts, batch, 1)
  /\ signals' = [i \in 1..Len(batch) |-> <<>>]
  /\ result' = IF Len(batch) = 0 THEN "resolved" ELSE "pending"
  /\ processors' = MessageRouter
  /\ regs' = 0
  /\ lastReg' = MessageRouter
  /\ report' = NoReport
  /\ cursor' = 1
  /\ attempt' = n
  /\ otherRouter' = processors
  /\ seen' = Consumed(Delivered(prior), new, ts)
  /\ input' = NoInput
  /\ calls' = <<>>
  /\ failure' = NoError
  /\ reply' = NoReply

\* The transport delivers what a QueueManager call has put on the queue:
\* the handler runs on the bodies of that call's payload.
Deliver ==
  /\ calls # <<>>
  /\ result = "resolved"
  /\ Accepted(calls) # <<>>
  /\ Handler(Accepted(calls), 1, [i \in 1..Len(Accepted(calls)) |-> NotSeen])

\* The transport delivers again the messages the handler called retry()
\* on ("it will be retried based on max_retries config").
Redeliver ==
  /\ op = "queue"
  /\ result = "resolved"
  /\ attempt < MaxAttempts
  /\ Retried(messages, signals) # <<>>
  /\ Handler(Retried(messages, signals), attempt + 1,
             Retried(seen, signals))

\* The part of a QueueManager call that leaves the router side untouched.
ProducerCall(fn, args, envelopes, call) ==
  /\ op' = fn
  /\ input' = [fn |-> fn, args |-> args]
  /\ messages' = envelopes
  /\ calls' = <<call>>
  /\ failure' = NoError
  /\ result' = "pending"
  /\ UNCHANGED <<processors, regs, lastReg, tasks, invoked, fetched, report,
                 cursor, signals, reply, attempt, seen, otherRouter>>

\* await queueManager.send(message, options): the call, up to its await.
Send ==
  /\ Quiescent
  /\ \E message \in QueueMessage, options \in SendOptions :
       ProducerCall("send", [message |-> message, options |-> options],
                    <<message>>, send(message, options))

\* await queueManager.sendBatch(messages, options)
SendBatch ==
  /\ Quiescent
  /\ \E batch \in Deliveries, options \in SendOptions :
       ProducerCall("sendBatch", [messages |-> batch, options |-> options],
                    batch, sendBatch(batch, options))

\* await queueManager.sendWebhook(...) .. sendCustom(...): the constructor
\* builds its envelope and awaits this.send(message), without options.
SendConstructed ==
  /\ Quiescent
  /\ \E c \in ConstructorCalls, now \in Clock :
       LET message == Constructed(c[1], c[2], now) IN
       ProducerCall(c[1], c[2], <<message>>, send(message, "undefined"))

\* An HTTP request to a /queue/ path: the route runs until it returns a
\* response or awaits its QueueManager call.
Fetch ==
  /\ Quiescent
  /\ \E request \in Requests, now \in Clock :
       LET r == queueEndpoint(request, now) IN
       /\ input' = [fn |-> "fetch", args |-> request]
       /\ messages' = r.envelopes
       /\ calls' = r.calls
       /\ reply' = r.reply
       /\ result' = IF r.reply = NoReply THEN "pending" ELSE "resolved"
  /\ op' = "fetch"
  /\ failure' = NoError
  /\ UNCHANGED <<processors, regs, lastReg, tasks, invoked, fetched, report,
                 cursor, signals, attempt, seen, otherRouter>>

\* The transport call settles, accepted or failed, and the QueueManager
\* call resumes after its await; a /queue/ endpoint awaiting that call
\* resumes in turn and returns its response.
TransportSettles ==
  /\ calls # <<>>
  /\ result = "pending"
  /\ calls[Len(calls)].state = "pending"
  /\ \E outcome \in {"accepted", "failed"} :
       LET r == sendResume([calls EXCEPT ![Len(calls)].state = outcome]) IN
       /\ calls' = r.calls
       /\ failure' = r.failure
       /\ result' = IF op = "fetch" THEN "resolved" ELSE r.result
       /\ reply' = IF op = "fetch" THEN queueEndpointResume(r.result)
                   ELSE reply
  /\ UNCHANGED <<processors, regs, lastReg, op, messages, tasks, invoked,
                 fetched, report, cursor, signals, input, attempt, seen,
                 otherRouter>>

\* Registrations made on a router used for batches: a user-supplied
\* processor or a second WebhookProcessor, for task or for custom.
RegisterProcessorForBatch ==
  RegisterProcessorIn({"task", "custom"}, {"P1", "WebhookProcessor"})

\* A registration made on the router the handler built for its batch: a
\* user-supplied processor for task.
RegisterProcessorOnBatchRouter == RegisterProcessorIn({"task"}, {"P1"})

Next ==
  \/ RegisterProcessor
  \/ ProcessMessage
  \/ FetchSettles
  \/ UserProcessorSettles
  \/ ProcessMessageResumes
  \/ CallerContinues

Spec == Init /\ [][Next]_vars

NextBatch ==
  \/ RegisterProcessorForBatch
  \/ ProcessBatch
  \/ FetchSettles
  \/ UserProcessorSettles
  \/ ProcessMessageResumes
  \/ ProcessBatchResumes
  \/ CallerContinues

SpecBatch == Init /\ [][NextBatch]_vars

NextQueue ==
  \/ Queue
  \/ FetchSettles
  \/ ProcessMessageResumes
  \/ QueueResumes
  \/ CallerContinues

SpecQueue == Init /\ [][NextQueue]_vars

NextConsumer ==
  \/ RegisterProcessorForBatch
  \/ ConsumerLoop
  \/ FetchSettles
  \/ UserProcessorSettles
  \/ ProcessMessageResumes
  \/ QueueResumes
  \/ CallerContinues

SpecConsumer == Init /\ [][NextConsumer]_vars

NextProducer ==
  \/ Send
  \/ SendBatch
  \/ SendConstructed
  \/ TransportSettles
  \/ CallerContinues

SpecProducer == Init /\ [][NextProducer]_vars

NextDelivery ==
  \/ Send
  \/ SendBatch
  \/ SendConstructed
  \/ TransportSettles
  \/ Deliver
  \/ FetchSettles
  \/ ProcessMessageResumes
  \/ QueueResumes
  \/ Redeliver
  \/ ProcessBatch
  \/ ProcessBatchResumes
  \/ CallerContinues

SpecDelivery == Init /\ [][NextDelivery]_vars

\* Deliveries to the queue() handler, one after the other, with
\* registrations made on the router of the batch being handled.
NextRouters ==
  \/ Queue
  \/ RegisterProcessorOnBatchRouter
  \/ FetchSettles
  \/ UserProcessorSettles
  \/ ProcessMessageResumes
  \/ QueueResumes
  \/ CallerContinues

SpecRouters == Init /\ [][NextRouters]_vars

\* The queue handler when every processor call terminates (each pending
\* request gets its response or its failure) and the event loop runs each
\* continuation that is ready.
FairSpecQueue ==
  /\ SpecQueue
  /\ WF_vars(FetchSettles)
  /\ WF_vars(ProcessMessageResumes)
  /\ WF_vars(QueueResumes)

\* processBatch when the event loop runs its continuation once the promise
\* it awaits has settled.
FairSpecBatch == SpecBatch /\ WF_vars(ProcessBatchResumes)

NextHttp ==
  \/ Fetch
  \/ TransportSettles
  \/ CallerContinues

SpecHttp == Init /\ [][NextHttp]_vars

\* ------------------------------------------------- claims: processMessage
\* The direct processMessage call in progress or just finished.
Direct == op = "processMessage"

\* C1: when the registered processor's process() throws error E, the
\* promise processMessage returned is rejected, neither resolved nor left
\* with another reason, and its reason is that same E.
C1_ThrowPropagatesUnchanged ==
  (Direct /\ tasks[1].proc # NoProcessor /\ tasks[1].pstate = "threw"
          /\ result # "pending")
    => (result = "rejected" /\ tasks[1].state = "rejected"
        /\ tasks[1].error = tasks[1].perror)

\* A webhook answered 500 "boom": the caller holds that very error.
C1_Witness ==
  /\ Direct
  /\ result = "rejected"
  /\ tasks[1].proc = "WebhookProcessor"
  /\ tasks[1].error = WebhookFailed(500, "boom")

\* C2: a processMessage call for an envelope whose tag has no entry in the
\* router's Map resolves, and no process() call and no HTTP request is made.
C2_UnhandledResolves ==
  (Direct /\ messages[1].type \notin DOMAIN processors)
    => (result = "resolved" /\ invoked = <<>> /\ fetched = <<>>)

\* A custom envelope on a router nobody registered anything on.
C2_Witness ==
  /\ Direct
  /\ regs = 0
  /\ messages[1].type = "custom"
  /\ result = "resolved"

\* C6: last write wins.  A processMessage call for tag T invokes exactly
\* the processor of the latest registerProcessor(T, .) call (the
\* constructor's calls included), and no other.
C6_LastWriteWins ==
  [][ProcessMessage =>
       LET type == messages'[1].type IN
       IF type \in DOMAIN lastReg
       THEN invoked' = << <<1, lastReg[type]>> >>
       ELSE invoked' = <<>>]_vars

\* Two registrations later the email tag, whose default was EmailProcessor,
\* is served by P2 and an email envelope went to P2.
C6_Witness ==
  /\ Direct
  /\ regs = 2
  /\ messages[1].type = "email"
  /\ lastReg["email"] = "P2"
  /\ invoked = << <<1, "P2">> >>

\* C7: as long as no registerProcessor call was made on it, a router has
\* an entry for exactly webhook, email, notification, task and analytics
\* (each its own processor class) and none for custom; and as long as
\* registerProcessor(custom, .) was never called, a custom envelope is
\* unhandled: the call resolves and invokes nothing.
C7_DefaultRegistry ==
  /\ regs = 0 =>
       /\ DOMAIN processors = QueueMessageType \ {"custom"}
       /\ \A t \in DOMAIN processors : ExpectedType(processors[t]) = t
  /\ (Direct /\ messages[1].type = "custom" /\ "custom" \notin DOMAIN lastReg)
       => (result = "resolved" /\ invoked = <<>>)

\* A custom envelope handed to a router that saw registrations, none of
\* them for custom.
C7_Witness ==
  /\ Direct
  /\ regs > 0
  /\ "custom" \notin DOMAIN lastReg
  /\ messages[1].type = "custom"
  /\ result = "resolved"

\* C10: a processor of one of the five classes that is handed an envelope
\* of another tag throws the invalid-type error before doing anything
\* else: its call never returns normally and no HTTP request is issued.
Mismatched(i) ==
  /\ tasks[i].proc \in DefaultProcessors
  /\ messages[i].type # ExpectedType(tasks[i].proc)

C10_TagCheckedFirst ==
  \A i \in 1..Len(tasks) :
    Mismatched(i) =>
      /\ tasks[i].pstate = "threw"
      /\ tasks[i].perror = InvalidMessageType(messages[i].type)
      /\ tasks[i].state # "resolved"
      /\ ~tasks[i].fetch
      /\ fetched = FetchedBy(tasks, messages, 1)
      /\ \A k \in 1..Len(fetched) : fetched[k] # messages[i]

\* A WebhookProcessor registered for custom was handed a custom envelope
\* and the call was rejected.
C10_Witness ==
  /\ Direct
  /\ tasks[1].proc = "WebhookProcessor"
  /\ messages[1].type = "custom"
  /\ tasks[1].state = "rejected"
  /\ fetched = <<>>

\* --------------------------------------------------- claims: processBatch
InBatch == op = "processBatch"

\* The envelopes of the call whose processor threw.
Throwing == {i \in 1..Len(tasks) : tasks[i].pstate = "threw"}

\* C3: failure isolation.  From the moment processBatch has yielded,
\* processMessage has been called once for every envelope of the batch,
\* whichever of them throw (an envelope of a tag the constructor registers
\* has had a processor invoked, and the process() calls made are one per
\* dispatched envelope, in the batch's order); and when the batch has
\* completed, every call has settled and every envelope whose processor
\* did not throw completed normally.
C3_FailureIsolation ==
  InBatch =>
    /\ Len(tasks) = Len(messages)
    /\ \A i \in 1..Len(tasks) :
         /\ tasks[i].state # "new"
         /\ messages[i].type \in DOMAIN MessageRouter
              => tasks[i].proc # NoProcessor
    /\ invoked = InvokedBy(tasks, 1)
    /\ result # "pending" =>
         \A i \in 1..Len(tasks) :
           /\ Settled(tasks[i])
           /\ i \notin Throwing => tasks[i].state = "resolved"

\* The first envelope's processor threw at once (a WebhookProcessor handed
\* a custom envelope) and the second, an email, was still processed.
C3_Witness ==
  /\ InBatch
  /\ result = "resolved"
  /\ Len(messages) = 2
  /\ messages[2].type = "email"
  /\ tasks[1].proc = "WebhookProcessor"
  /\ tasks[1].perror = InvalidMessageType("custom")
  /\ tasks[1].state = "rejected"
  /\ tasks[2].state = "resolved"
  /\ invoked = << <<1, "WebhookProcessor">>, <<2, "EmailProcessor">> >>

\* C4: the promise of processBatch is never rejected, and it is resolved
\* only when every per-envelope call has settled; once they all have, its
\* continuation is ready to resolve it.
C4_BatchNeverRejects ==
  InBatch =>
    /\ result \in {"pending", "resolved"}
    /\ result = "resolved" => \A i \in 1..Len(tasks) : Settled(tasks[i])
    /\ (result = "pending" /\ \A i \in 1..Len(tasks) : Settled(tasks[i]))
         => processBatchResume(tasks).result = "resolved"

\* A batch of two whose processors both threw has resolved.
C4_Witness ==
  /\ InBatch
  /\ result = "resolved"
  /\ Len(tasks) = 2
  /\ \A i \in 1..Len(tasks) : tasks[i].state = "rejected"

\* C5 as stated: every completed batch carries a report of its failure
\* count and its total.
C5_AlwaysReports ==
  (InBatch /\ result = "resolved") =>
    /\ report.made
    /\ report.failures = Cardinality(Throwing)
    /\ report.total = Len(messages)

\* C5, amended: a completed batch with at least one failure reports
\* exactly the number of envelopes whose processor threw, with the total
\* N; envelopes of an unregistered tag are not among them; and a batch
\* without any failure makes no report at all.
C5_ReportsFailures ==
  (InBatch /\ result = "resolved") =>
    /\ \A i \in 1..Len(tasks) :
         tasks[i].proc = NoProcessor => i \notin Throwing
    /\ IF Cardinality(Throwing) > 0
       THEN report = [failures |-> Cardinality(Throwing),
                      total |-> Len(messages), made |-> TRUE]
       ELSE report = NoReport

\* One failed webhook and one unhandled custom envelope: 1 out of 2.
C5_Witness ==
  /\ InBatch
  /\ result = "resolved"
  /\ Len(messages) = 2
  /\ tasks[1].perror = WebhookFailed(500, "boom")
  /\ tasks[2].proc = NoProcessor
  /\ messages[2].type = "custom"
  /\ report = [failures |-> 1, total |-> 2, made |-> TRUE]

\* ------------------------------------------------- claims: queue consumer
InQueue == op = "queue"

\* C8: in the queue handler no message ever has more than one signal; a
\* message is acked only if its processMessage call resolved and retried
\* only if that call was rejected; and when the handler has returned,
\* every message of the batch has its signal.
C8_ExactlyOneSignal ==
  InQueue =>
    \A i \in 1..Len(messages) :
      /\ Len(signals[i]) <= 1
      /\ signals[i] = <<"ack">> => tasks[i].state = "resolved"
      /\ signals[i] = <<"retry">> => tasks[i].state = "rejected"
      /\ result = "resolved" => Len(signals[i]) = 1

\* A batch of two: the first acked, the second (a failed webhook) retried.
C8_Witness ==
  /\ InQueue
  /\ result = "resolved"
  /\ Len(messages) = 2
  /\ signals = << <<"ack">>, <<"retry">> >>
  /\ tasks[2].error = NetworkError

\* C9: the handler's router is a fresh default one, and a message whose
\* tag it has no processor for (custom, or a tag outside the enum) is
\* never retried: no processor is invoked for it and its only signal, which
\* it has when the handler has gone past it, is ack.
Unhandled(i) == messages[i].type \notin DOMAIN MessageRouter

C9_UnhandledNeverRetried ==
  InQueue =>
    /\ processors = MessageRouter
    /\ \A i \in 1..Len(messages) :
         Unhandled(i) =>
           /\ signals[i] \in {<<>>, <<"ack">>}
           /\ tasks[i].state \in {"new", "resolved"}
           /\ \A k \in 1..Len(invoked) : invoked[k][1] # i
           /\ (i < cursor \/ result = "resolved") => signals[i] = <<"ack">>

\* A custom and an unknown-tag message, both acked, nothing invoked.
C9_Witness ==
  /\ InQueue
  /\ result = "resolved"
  /\ Len(messages) = 2
  /\ messages[1].type = "custom"
  /\ messages[2].type = "unknown"
  /\ signals = << <<"ack">>, <<"ack">> >>
  /\ invoked = <<>>

\* The messages of the loop whose processMessage call was rejected with
\* the invalid-type error of a processor's tag check.
InvalidTypeRejected ==
  {i \in 1..Len(tasks) :
     /\ tasks[i].state = "rejected"
     /\ tasks[i].error = InvalidMessageType(messages[i].type)}

C12_WebhookOutcome ==
  (Direct /\ tasks[1].proc = "WebhookProcessor"
          /\ messages[1].type = "webhook") =>
    LET t == tasks[1] IN
    /\ fetched = <<messages[1]>>
    /\ t.response.kind = "none" => t.pstate = "pending"
    /\ t.response.kind = "response" =>
         /\ t.pstate = "ok" <=> t.response.status \in 200..299
         /\ t.pstate # "ok" =>
              /\ t.pstate = "threw"
              /\ t.perror = WebhookFailed(t.response.status, t.response.body)
    /\ t.response.kind = "rejected" =>
         /\ t.pstate = "threw"
         /\ t.perror = t.response.error

\* The webhook target answered 300: process() threw the error with 300
\* and the body, and the caller of processMessage holds it.
C12_Witness ==
  /\ Direct
  /\ tasks[1].proc = "WebhookProcessor"
  /\ messages[1].type = "webhook"
  /\ tasks[1].response = Response(300, "boom")
  /\ tasks[1].state = "rejected"
  /\ tasks[1].error = WebhookFailed(300, "boom")

\* The tags whose default processor is a placeholder.
PlaceholderTypes == {"email", "notification", "task", "analytics"}

\* C13: in the queue handler (default wiring) a message of tag email,
\* notification, task or analytics goes to the processor class of its tag,
\* whose process() returns normally at once and issues no HTTP request;
\* the message is never retried, and once the loop has gone past it, it is
\* acked.
C13_PlaceholdersSucceed ==
  InQueue =>
    \A i \in 1..Len(messages) :
      (messages[i].type \in PlaceholderTypes /\ tasks[i].state # "new") =>
        /\ ExpectedType(tasks[i].proc) = messages[i].type
        /\ tasks[i].pstate = "ok"
        /\ ~tasks[i].fetch
        /\ \A k \in 1..Len(fetched) : fetched[k] # messages[i]
        /\ tasks[i].state \in {"awaiting", "resolved"}
        /\ signals[i] \in {<<>>, <<"ack">>}
        /\ (i < cursor \/ result = "resolved") => signals[i] = <<"ack">>

\* A task and an analytics message, both acked, no request made.
C13_Witness ==
  /\ InQueue
  /\ result = "resolved"
  /\ Len(messages) = 2
  /\ messages[1].type = "task"
  /\ messages[2].type = "analytics"
  /\ invoked = << <<1, "TaskProcessor">>, <<2, "AnalyticsProcessor">> >>
  /\ signals = << <<"ack">>, <<"ack">> >>
  /\ fetched = <<>>

\* ------------------------------------------------------ claims: producer
\* C14: a send call has made exactly one transport send call and a
\* sendBatch call exactly one transport sendBatch call, whatever the batch
\* size and whatever the outcome; the caller's promise settles only when
\* that one call has, resolved if it was accepted and rejected with the
\* transport's error if it failed.
C14_OneTransportCall ==
  op \in {"send", "sendBatch"} =>
    /\ Len(calls) = 1
    /\ calls[1].method = op
    /\ calls[1].state = "pending" <=> result = "pending"
    /\ calls[1].state = "accepted" <=> result = "resolved"
    /\ calls[1].state = "failed" <=> result = "rejected"
    /\ failure = IF result = "rejected" THEN TransportError ELSE NoError

\* A sendBatch of two envelopes whose one transport call failed.
C14_Witness ==
  /\ op = "sendBatch"
  /\ Len(messages) = 2
  /\ Len(calls) = 1
  /\ calls[1].state = "failed"
  /\ result = "rejected"
  /\ failure = TransportError

\* C15: the payload sendBatch hands to the transport has as many entries
\* as the list it was given, and the body of its i-th entry is the i-th
\* envelope of that list.
C15_BatchPayloadInOrder ==
  op = "sendBatch" =>
    LET given == input.args.messages
        payload == calls[1].payload IN
    /\ Len(payload) = Len(given)
    /\ \A i \in 1..Len(given) : payload[i].body = given[i]

\* Two different envelopes, handed over in the caller's order.
C15_Witness ==
  /\ op = "sendBatch"
  /\ Len(input.args.messages) = 2
  /\ input.args.messages[1].type = "task"
  /\ input.args.messages[2].type = "email"
  /\ calls[1].payload[1].body.type = "task"
  /\ calls[1].payload[2].body.type = "email"

\* The tag of each convenience constructor.
ConstructorTag(fn) ==
  CASE fn = "sendWebhook" -> "webhook"
    [] fn = "sendEmail" -> "email"
    [] fn = "sendNotification" -> "notification"
    [] fn = "sendTask" -> "task"
    [] fn = "sendAnalytics" -> "analytics"
    [] fn = "sendCustom" -> "custom"

Constructors == {"sendWebhook", "sendEmail", "sendNotification", "sendTask",
                 "sendAnalytics", "sendCustom"}

\* The arguments a, as passed, laid out in the data shape of fn's tag.
ArgumentsAsData(fn, a) ==
  CASE fn = "sendWebhook" ->
         [url |-> a.url, method |-> a.method, headers |-> a.headers,
          body |-> a.body]
    [] fn = "sendEmail" ->
         [to |-> a.to, from |-> a.from, subject |-> a.subject,
          body |-> a.body, html |-> a.html]
    [] fn = "sendNotification" ->
         [userId |-> a.userId, title |-> a.title, message |-> a.messageText,
          priority |-> a.priority]
    [] fn = "sendTask" ->
         [taskId |-> a.taskId, action |-> a.action, payload |-> a.payload]
    [] fn = "sendAnalytics" ->
         [event |-> a.event, properties |-> a.properties, userId |-> a.userId]
    [] fn = "sendCustom" -> a.data

\* One transport send call, carrying one envelope of the constructor's tag.
OneEnvelopeOfOwnTag ==
  /\ Len(calls) = 1
  /\ calls[1].method = "send"
  /\ Len(calls[1].payload) = 1
  /\ calls[1].payload[1].body.type = ConstructorTag(op)

\* C16 as stated: each constructor hands the transport exactly one
\* envelope of its own tag whose data is exactly the arguments passed.
C16_DataIsArguments ==
  op \in Constructors =>
    /\ OneEnvelopeOfOwnTag
    /\ calls[1].payload[1].body.data = ArgumentsAsData(op, input.args)

\* C16, amended: each constructor hands the transport exactly one envelope
\* of its own tag whose data is exactly the arguments passed, except that
\* sendNotification called without a priority puts priority "medium".
C16_DataIsArgumentsOrDefault ==
  op \in Constructors =>
    /\ OneEnvelopeOfOwnTag
    /\ calls[1].payload[1].body.data =
         IF op = "sendNotification" /\ input.args.priority = "undefined"
         THEN [ArgumentsAsData(op, input.args) EXCEPT !.priority = "medium"]
         ELSE ArgumentsAsData(op, input.args)

\* sendEmail with an html part: the transport holds the email envelope.
C16_Witness ==
  /\ op = "sendEmail"
  /\ input.args.html = "<p>text</p>"
  /\ result = "resolved"
  /\ calls[1].payload[1].body.type = "email"
  /\ calls[1].payload[1].body.data.to = "to@example"
  /\ calls[1].payload[1].body.data.from = "from@example"

\* ------------------------------------------------------ claims: delivery
\* C17: an envelope is never modified after creation.  What a QueueManager
\* call hands the transport is the envelopes it was given; what the handler
\* is delivered is what was sent; while send, sendBatch, processMessage (in
\* the handler's loop), processBatch or a processor is running, the
\* envelopes stay as they were; and what is delivered again after retry()
\* is the retried envelopes as they were, on every delivery attempt.
C17_EnvelopeNeverModified ==
  [][/\ \A k \in 1..Len(calls') :
          /\ Len(calls'[k].payload) = Len(messages')
          /\ \A i \in 1..Len(messages') :
               calls'[k].payload[i].body = messages'[i]
     /\ (op # "idle" /\ op' # "idle") =>
          messages' = IF op = "queue" /\ attempt' = attempt + 1
                      THEN Retried(messages, signals)
                      ELSE messages]_vars

\* A webhook envelope built by sendWebhook one second after the epoch of
\* the other samples is on its second delivery, and was retried again.
C17_Witness ==
  /\ op = "queue"
  /\ attempt = 2
  /\ Len(messages) = 1
  /\ messages[1].type = "webhook"
  /\ messages[1].timestamp = "2025-11-03T00:00:01.000Z"
  /\ messages[1].data.url = "https://hooks.example/a"
  /\ signals[1] = <<"retry">>

\* ------------------------------------------------------ claims: dispatch
\* C18: when a processor is registered for the envelope's tag, one
\* processMessage call invokes process() exactly once, on exactly one
\* processor, the one registered for envelope.type: any envelope of the same
\* type, whatever its data, is dispatched to that same processor; and no
\* later step of the call invokes process() again.
C18_DispatchByTypeAlone ==
  [][/\ (op = "idle" /\ op' = "processMessage"
           /\ messages'[1].type \in DOMAIN processors) =>
          /\ invoked' = << <<1, processors[messages'[1].type]>> >>
          /\ \A other \in QueueMessage :
               other.type = messages'[1].type =>
                 processMessage(processors, other).proc = invoked'[1][2]
     /\ (op = "processMessage" /\ op' = "processMessage") =>
          invoked' = invoked]_vars

\* An envelope of tag task with the second sample payload went to the user
\* processor registered for task, and the call has returned.
C18_Witness ==
  /\ Direct
  /\ messages[1].type = "task"
  /\ messages[1].data = "d2"
  /\ processors["task"] = "P1"
  /\ invoked = << <<1, "P1">> >>
  /\ result = "resolved"

\* ------------------------------------------------- claims: concurrency
\* The processMessage call of envelope i can take its next step.
CanProceed(i) ==
  ENABLED (\/ FetchSettlesFor(i)
           \/ UserProcessorSettlesFor(i)
           \/ ProcessMessageResumesFor(i))

\* The processor call of envelope i has not completed.
Hung(i) == tasks[i].state = "awaiting" /\ tasks[i].pstate = "pending"

\* C19: under processBatch every envelope's processMessage call has been
\* started by the time the call first yields, and a call that has not
\* settled can always take its next step, whichever sibling calls are still
\* pending: a processor call that never completes stalls only its own
\* envelope.
C19_HungCallStallsOnlyItself ==
  InBatch =>
    /\ Len(tasks) = Len(messages)
    /\ \A i \in 1..Len(tasks) :
         /\ tasks[i].state # "new"
         /\ ~Settled(tasks[i]) => CanProceed(i)
    /\ \A i \in 1..Len(tasks) :
         Hung(i) => \A j \in 1..Len(tasks) :
                      (j # i /\ ~Settled(tasks[j])) => CanProceed(j)

\* The webhook call of the first envelope is still pending, the batch call
\* too, and the second envelope's call, to a user processor, has completed.
C19_Witness ==
  /\ InBatch
  /\ result = "pending"
  /\ Len(messages) = 2
  /\ Hung(1)
  /\ tasks[1].proc = "WebhookProcessor"
  /\ tasks[2].proc = "P1"
  /\ tasks[2].state = "resolved"

\* C20 as stated: in the queue handler a processor call that does not
\* complete for one message does not prevent the processing of the other
\* messages of the batch: each of them has been dispatched or can be.
C20_IndependentTasks ==
  InQueue =>
    \A i \in 1..Len(tasks) :
      Hung(i) => \A j \in 1..Len(tasks) :
                   j # i => (tasks[j].state # "new" \/ ENABLED QueueResumes)

\* C20, amended: the queue handler processes the messages of a delivered
\* batch one at a time, in batch order.  While the handler runs, the
\* messages before the current one have settled and carry exactly one
\* signal, the current one has been dispatched and carries none, and the
\* messages after it are neither dispatched nor signalled; while the
\* current message's processor call has not completed the handler cannot
\* go on, so a call that never completes leaves every later message
\* unprocessed and without ack or retry.
C20_OneMessageAtATime ==
  (InQueue /\ result = "pending") =>
    /\ cursor \in 1..Len(messages)
    /\ \A j \in 1..Len(messages) :
         /\ j < cursor => (Settled(tasks[j]) /\ Len(signals[j]) = 1)
         /\ j = cursor => (tasks[j].state # "new" /\ signals[j] = <<>>)
         /\ j > cursor => (tasks[j].state = "new" /\ signals[j] = <<>>)
    /\ Hung(cursor) => ~ENABLED QueueResumes

\* The webhook call of the first of two messages is pending: the second
\* message, a task message, has not been dispatched and has no signal.
C20_Witness ==
  /\ InQueue
  /\ Len(messages) = 2
  /\ cursor = 1
  /\ Hung(1)
  /\ messages[2].type = "task"
  /\ tasks[2].state = "new"
  /\ signals = << <<>>, <<>> >>

\* ------------------------------------------------- claims: redelivery
\* The lifecycle state of message i of a delivered batch with tasks ts and
\* signals sigs.
Lifecycle(ts, sigs, i) ==
  IF \E k \in 1..Len(sigs[i]) : sigs[i][k] = "ack" THEN "Acked"
  ELSE IF sigs[i] # <<>> THEN "RetryScheduled"
  ELSE IF ts[i].state = "new" THEN "Delivered"
  ELSE "Processing"

LifecycleSteps ==
  {<<"Delivered", "Processing">>, <<"Processing", "Acked">>,
   <<"Processing", "RetryScheduled">>}

\* The messages of the batch in lifecycle state RetryScheduled, in order.
RECURSIVE RetryScheduledFrom(_)
RetryScheduledFrom(i) ==
  IF i > Len(messages) THEN <<>>
  ELSE (IF Lifecycle(tasks, signals, i) = "RetryScheduled"
        THEN <<messages[i]>> ELSE <<>>) \o RetryScheduledFrom(i + 1)

\* C21: within one run of the handler a message only moves Delivered ->
\* Processing -> Acked or Delivered -> Processing -> RetryScheduled, so an
\* acked message is never processed, acked or retried again; and the
\* messages of a further delivery are exactly the ones left in
\* RetryScheduled by a handler that has returned, each of them Delivered or
\* Processing anew.
C21_Lifecycle ==
  [][(InQueue /\ op' = "queue") =>
       IF attempt' = attempt
       THEN /\ messages' = messages
            /\ \A i \in 1..Len(messages) :
                 LET before == Lifecycle(tasks, signals, i)
                     after == Lifecycle(tasks', signals', i) IN
                 after = before \/ <<before, after>> \in LifecycleSteps
       ELSE /\ result = "resolved"
            /\ attempt' = attempt + 1
            /\ messages' = RetryScheduledFrom(1)
            /\ \A i \in 1..Len(messages') :
                 Lifecycle(tasks', signals', i) \in {"Delivered", "Processing"}
    ]_vars

\* A webhook message retried on its first delivery is acked on its second.
C21_Witness ==
  /\ InQueue
  /\ attempt = 2
  /\ Len(messages) = 1
  /\ messages[1].type = "webhook"
  /\ Lifecycle(tasks, signals, 1) = "Acked"
  /\ result = "resolved"

\* C22: the consumer loop calls processMessage exactly once for each
\* message of each delivered batch.  On its k-th delivery a message has had
\* k processMessage calls once the loop has reached it (k - 1 before), and
\* its processor, if its tag has one, has been invoked once per call: k
\* times for k deliveries, nothing being deduplicated.
C22_OncePerDelivery ==
  InQueue =>
    /\ Len(seen) = Len(messages)
    /\ \A i \in 1..Len(messages) :
         /\ seen[i].deliveries = attempt
         /\ seen[i].calls = IF tasks[i].state = "new" THEN attempt - 1
                            ELSE attempt
         /\ seen[i].invocations =
              IF messages[i].type \in DOMAIN MessageRouter
              THEN seen[i].calls ELSE 0
         /\ result = "resolved" => seen[i].calls = attempt

\* A webhook message on its second delivery: processMessage was called
\* twice for it and the webhook processor invoked twice.
C22_Witness ==
  /\ InQueue
  /\ result = "resolved"
  /\ attempt = 2
  /\ messages[1].type = "webhook"
  /\ seen[1].deliveries = 2
  /\ seen[1].calls = 2
  /\ seen[1].invocations = 2

\* C23: the handler bounds no retries.  On every delivery, the k-th as
\* the first, a message in the batch has been retried on each of its
\* earlier deliveries, and the loop signals it by the outcome of this
\* delivery alone: retry() again if processMessage was rejected, ack() if
\* it resolved; none is left without a signal or dropped.
C23_NoRetryBound ==
  InQueue =>
    /\ attempt \in 1..MaxAttempts
    /\ \A i \in 1..Len(messages) :
         /\ seen[i].retries = IF signals[i] = <<"retry">> THEN attempt
                              ELSE attempt - 1
         /\ signals[i] # <<>> =>
              signals[i] = IF tasks[i].state = "rejected"
                           THEN <<"retry">> ELSE <<"ack">>
         /\ (i < cursor \/ result = "resolved") => signals[i] # <<>>

\* A message whose webhook failed on its first delivery fails again on its
\* second, with status 500, and is retried again.
C23_Witness ==
  /\ InQueue
  /\ attempt = 2
  /\ messages[1].type = "webhook"
  /\ tasks[1].error = WebhookFailed(500, "boom")
  /\ signals[1] = <<"retry">>
  /\ seen[1].retries = 2

\* --------------------------------------------------- claims: registry
\* C24: the registry belongs to one router.  A registerProcessor call on
\* the router of the batch being handled leaves the registry of the router
\* built before it as it was; and the router the handler builds for the
\* next batch has the five default entries, whatever was registered on
\* the previous one, which keeps its own: the new batch is dispatched by
\* the defaults alone.
C24_RegistryPerRouter ==
  [][/\ (op' = op /\ processors' # processors) => otherRouter' = otherRouter
     /\ (op = "idle" /\ op' = "queue") =>
          /\ processors' = MessageRouter
          /\ otherRouter' = processors
          /\ \A i \in 1..Len(tasks') :
               tasks'[i].state # "new" =>
                 tasks'[i].proc = MapGet(MessageRouter, messages'[i].type)
    ]_vars

\* P1 was registered for task on the previous batch's router; the task
\* message of this batch went to the default TaskProcessor.
C24_Witness ==
  /\ InQueue
  /\ MapGet(otherRouter, "task") = "P1"
  /\ MapGet(processors, "task") = "TaskProcessor"
  /\ Len(messages) = 1
  /\ messages[1].type = "task"
  /\ invoked = << <<1, "TaskProcessor">> >>

\* ---------------------------------------------------- claims: progress
\* C25: if every processor call terminates, a handler that has been
\* delivered a batch returns, and by then every message of the batch has
\* its one signal, whichever of them failed: a throw for message i does
\* not leave messages i+1..n without a signal.
C25_HandlerTerminates ==
  (InQueue /\ result = "pending") ~>
    (/\ InQueue
     /\ result = "resolved"
     /\ \A i \in 1..Len(messages) : Len(signals[i]) = 1)

\* The first of two messages failed and was retried; the second was
\* processed after it and acked; the handler has returned.
C25_Witness ==
  /\ InQueue
  /\ result = "resolved"
  /\ Len(messages) = 2
  /\ tasks[1].state = "rejected"
  /\ tasks[2].proc = "EmailProcessor"
  /\ signals = << <<"retry">>, <<"ack">> >>

\* C26: processBatch has resolved only if every envelope's processMessage
\* call has settled, and its report, if it made one, counts the rejected
\* calls among all N of them; and once all the calls have settled,
\* processBatch does resolve.
C26_ResolvesWhenAllSettled ==
  /\ []((InBatch /\ result # "pending") =>
          /\ Len(tasks) = Len(messages)
          /\ \A i \in 1..Len(tasks) : Settled(tasks[i])
          /\ report.made =>
               /\ report.total = Len(messages)
               /\ report.failures =
                    Cardinality({i \in 1..Len(tasks) :
                                   tasks[i].state = "rejected"}))
  /\ (InBatch /\ result = "pending"
        /\ \A i \in 1..Len(tasks) : Settled(tasks[i]))
       ~> (InBatch /\ result = "resolved")

\* Both calls went out as webhooks and settled later, the second one
\* rejected by a failed request: processBatch resolved, reporting 1 of 2.
C26_Witness ==
  /\ InBatch
  /\ result = "resolved"
  /\ Len(messages) = 2
  /\ tasks[1].response = Response(200, "boom")
  /\ tasks[2].response = FetchRejected(NetworkError)
  /\ report.failures = 1
  /\ report.total = 2

\* C27: registerProcessor(T, P) changes the entry of tag T only: some tag
\* T now maps to the processor registered, and every other tag has the
\* processor, or the lack of one, that it had; and in every state each tag
\* of the registry maps to one processor.
C27_OnlyOneEntryChanges ==
  [][/\ regs' = regs + 1 =>
          \E type \in QueueMessageType :
            /\ MapGet(processors', type) = MapGet(lastReg', type)
            /\ MapGet(lastReg', type) \in MessageProcessor
            /\ \A other \in Types \ {type} :
                 MapGet(processors', other) = MapGet(processors, other)
     /\ DOMAIN processors' \subseteq QueueMessageType
     /\ processors' \in [DOMAIN processors' -> MessageProcessor]
    ]_vars

\* P1 registered for task, then P2 for custom: the first registration and
\* the four other defaults are as they were.
C27_Witness ==
  /\ regs = 2
  /\ processors = MapSet(MapSet(MessageRouter, "task", "P1"), "custom", "P2")
  /\ MapGet(processors, "task") = "P1"
  /\ MapGet(processors, "webhook") = "WebhookProcessor"

\* ------------------------------------------------ claims: interleaving
\* C28: the processor of a dispatch is resolved once, when processMessage
\* is called.  processBatch looks up every envelope in the registry as it
\* is at the call, so envelopes of one tag go to one processor; and no
\* later step, a registerProcessor call for that tag included, changes
\* the processor of a call in flight, invokes a processor again, or takes
\* a pending call back: it stays awaiting until its own processor settles,
\* with that processor's own outcome.
C28_LookupAtCallTime ==
  [][/\ (op = "idle" /\ op' = "processBatch") =>
          \A i \in 1..Len(messages') :
            /\ tasks'[i].proc = MapGet(processors, messages'[i].type)
            /\ \A j \in 1..Len(messages') :
                 messages'[j].type = messages'[i].type =>
                   tasks'[j].proc = tasks'[i].proc
     /\ (InBatch /\ op' = "processBatch") =>
          /\ invoked' = invoked
          /\ regs' = regs + 1 => tasks' = tasks
          /\ \A i \in 1..Len(tasks) :
               /\ tasks'[i].proc = tasks[i].proc
               /\ Hung(i) => tasks'[i].state = "awaiting"
               /\ (Hung(i) /\ tasks'[i].pstate = "threw"
                     /\ tasks[i].proc \in UserProcessors) =>
                    tasks'[i].perror = UserError(tasks[i].proc)
    ]_vars

\* A task envelope went to P1; while P1 was running, WebhookProcessor was
\* registered for task; the call completed on P1 all the same.
C28_Witness ==
  /\ InBatch
  /\ Len(messages) = 1
  /\ messages[1].type = "task"
  /\ tasks[1].proc = "P1"
  /\ tasks[1].state = "resolved"
  /\ MapGet(processors, "task") = "WebhookProcessor"
  /\ invoked = << <<1, "P1">> >>

\* ------------------------------------------------ claims: independence
\* The processMessage call of a handler delivered message m alone, when
\* the request its processor makes, if it makes one, has outcome response.
AloneTask(m, response) ==
  LET called == processMessage(MessageRouter, m)
      settled ==
        IF called.pstate = "pending"
        THEN LET r == WebhookProcessor_resume(response) IN
             [called EXCEPT !.response = response, !.pstate = r.state,
                            !.perror = r.error]
        ELSE called IN
  IF settled.state = "awaiting" THEN processMessageResume(settled)
  ELSE settled

\* C29: the signal a message gets in a batch is the one it gets when it is
\* delivered alone with the same processor outcome, and so is the outcome
\* of its processMessage call: the decision for m is a function of m's
\* body and its own processor outcome, the same in any two batches that
\* agree on m, whatever their other messages, order and failures.
C29_OutcomeIndependence ==
  InQueue =>
    \A i \in 1..Len(messages) :
      signals[i] # <<>> =>
        /\ tasks[i] = AloneTask(messages[i], tasks[i].response)
        /\ signals[i] = queueSignals(AloneTask(messages[i], tasks[i].response))

\* Two webhook messages in one batch: the first got a 500 and was
\* retried, the second got a 200 and was acked.
C29_Witness ==
  /\ InQueue
  /\ Len(messages) = 2
  /\ messages[1].type = "webhook"
  /\ messages[2].type = "webhook"
  /\ tasks[1].response = Response(500, "boom")
  /\ tasks[2].response = Response(200, "boom")
  /\ signals = << <<"retry">>, <<"ack">> >>

\* ------------------------------------------------------ claims: endpoints
\* The request lacks a field its action requires, or its batch is not a
\* non-empty array.
MissingRequired(request) ==
  LET b == request.body
      lacks(fields) == \E f \in fields : b[f] = "undefined" IN
  CASE request.action = "webhook" -> lacks({"url", "method"})
    [] request.action = "email" -> lacks({"to", "from", "subject", "body"})
    [] request.action = "notification" ->
         lacks({"userId", "title", "message"})
    [] request.action = "task" -> lacks({"taskId", "action", "payload"})
    [] request.action = "analytics" -> lacks({"event", "properties"})
    [] request.action = "batch" ->
         ~b.messages.array \/ b.messages.items = <<>>
    [] OTHER -> FALSE

KnownActions == {"send", "webhook", "email", "notification", "task",
                 "analytics", "batch"}

\* C30: a /queue/ request that is not a POST is answered 405; a POST with
\* a JSON body is answered 404 for an unknown action and 400 when a
\* required field is missing or the batch is not a non-empty array; a
\* request answered 405, 400 or 404 has made no transport call; a request
\* answered with success has made exactly one, which was accepted; and a
\* request whose transport call failed is answered 500, without success.
C30_EndpointsAndTransport ==
  (op = "fetch" /\ reply # NoReply) =>
    LET request == input.args IN
    /\ Len(calls) <= 1
    /\ request.method # "POST" => reply.status = 405
    /\ (request.method = "POST" /\ request.json) =>
         /\ request.action \notin KnownActions => reply.status = 404
         /\ MissingRequired(request) => reply.status = 400
    /\ reply.status \in {405, 400, 404} => (calls = <<>> /\ ~reply.success)
    /\ reply.success =>
         /\ reply.status = 200
         /\ Len(calls) = 1
         /\ calls[1].state = "accepted"
    /\ (calls # <<>> /\ calls[1].state = "failed") =>
         reply = Reply(500, FALSE)

\* A batch of two posted to /queue/batch: the one sendBatch call failed
\* and the request was answered 500.
C30_Witness ==
  /\ op = "fetch"
  /\ input.args.action = "batch"
  /\ Len(messages) = 2
  /\ Len(calls) = 1
  /\ calls[1].method = "sendBatch"
  /\ calls[1].state = "failed"
  /\ reply = Reply(500, FALSE)

====
